---- MODULE Spec2Model ----
(***************************************************************************)
(* Reserve funding simulation and levelized contribution solver            *)
(* (src/reserve_math.py).                                                  *)
(*                                                                         *)
(* Money.  The program computes in binary floating point.  Here every      *)
(* amount is a whole number of ticks, a tick being 1/TicksPerCent of a     *)
(* cent, and a product or quotient that is not a whole number of ticks is  *)
(* rounded to the nearest tick (ties to even), as a float operation rounds *)
(* to the nearest representable value.  The 20 doublings of the search     *)
(* ceiling exceed 32 bits, so an amount is kept as two limbs <<h, l>>      *)
(* standing for h * Base + l with 0 <= l < Base.  The comparison tolerance *)
(* of 1e-9 is smaller than a tick: for whole numbers of ticks              *)
(* x < m - 1e-9 is x < m.  Rates are exact fractions <<num, den>>.         *)
(***************************************************************************)
EXTENDS Integers, Sequences, FiniteSets, TLC

VARIABLES
    inp,        \* the arguments of the current solver call
    pc,         \* position in recommend_levelized_full_funding_contribution
    lo, hi,     \* the search bracket
    n,          \* the loop counter `_` of the loop being run
    ok, rows,   \* result of the last _simulate call
    st,         \* component states left by the last _simulate call
    best, best_rows,
    annual_contribution,  \* the contribution of the _simulate call being stepped
    sim,        \* the loop state of the _simulate call being stepped
    trials,     \* history: the _simulate calls made so far, with their verdicts
    calls,      \* history: number of solver calls started
    returned,   \* history: the results of the solver calls that have returned
    studies,    \* the application's reserve_study table, each row with what hangs on it
    log         \* history: the last request handled, and the checkouts committed

vars == <<inp, pc, lo, hi, n, ok, rows, st, best, best_rows,
          annual_contribution, sim, trials, calls, returned, studies, log>>

---------------------------------------------------------------------------
(* Bounds of the model *)
TicksPerCent == 8
MaxHorizon == 3
MaxCycle == 3
MaxCalls == 3
MaxProbes == 2
MaxPhotos == 1
MaxRuns == 2

(* Program constants *)
ExpandAttempts == 20
BisectSteps == 50
MinHiDollars == 5000

---------------------------------------------------------------------------
(* Two-limb amounts *)
Base == 2^20

MNorm(h, l) == <<h + (l \div Base), l % Base>>
M(k) == MNorm(0, k)
MZero == <<0, 0>>
MAdd(a, b) == MNorm(a[1] + b[1], a[2] + b[2])
MSub(a, b) == MNorm(a[1] - b[1], a[2] - b[2])
MMul(a, k) == MNorm(a[1] * k, a[2] * k)
MLess(a, b) == a[1] < b[1] \/ (a[1] = b[1] /\ a[2] < b[2])
MLeq(a, b) == ~MLess(b, a)
MMax(a, b) == IF MLess(a, b) THEN b ELSE a

\* a / d for d > 0, rounded to the nearest tick, ties to even
MDivRound(a, d) ==
    LET t == (a[1] % d) * Base + a[2]
        q == <<a[1] \div d, t \div d>>
        rem == t % d
        up == 2 * rem > d \/ (2 * rem = d /\ q[2] % 2 = 1)
    IN IF up THEN MAdd(q, M(1)) ELSE q

\* a / d for d > 0, rounded down
MDivFloor(a, d) ==
    LET t == (a[1] % d) * Base + a[2]
    IN <<a[1] \div d, t \div d>>

\* a * num / den for den > 0
MScale(a, num, den) == MDivRound(MMul(a, num), den)

Cents(k) == M(k * TicksPerCent)
Dollars(k) == MMul(M(k * TicksPerCent), 100)

---------------------------------------------------------------------------
(* Python conversions used on the component fields *)

\* (only a missing value replaced by the default)
OrElseMissingOnly(x, d) == IF x = <<>> THEN d ELSE x[1]

\* x or d: a missing (None), zero or empty value is falsy. An optional field
\* is a sequence of length 0 (missing) or 1.
OrElse(x, d) == IF x = <<>> \/ x[1] = 0 THEN d ELSE x[1]

Max(a, b) == IF a > b THEN a ELSE b
Min(a, b) == IF a < b THEN a ELSE b

\* float(c["current_replacement_cost"]): the cost, given in cents, as an amount
CostOf(c) == Cents(c.current_replacement_cost)

\* int(c.get("quantity", 1) or 1)
QuantityOf(c) == OrElse(c.quantity, 1)

---------------------------------------------------------------------------
(* _build_component_state *)
BuildOne(c) ==
    LET qty == QuantityOf(c)
        ul0 == c.useful_life_years
        rl0 == c.remaining_life_years
        cyc0 == OrElse(c.cycle_years, ul0)
        cost == CostOf(c)
        ul == Max(1, ul0)
        cyc == Max(1, cyc0)
        rl == Max(0, rl0)
        age == Max(0, Min(cyc, cyc - rl))
    IN [name |-> c.name, qty |-> Max(1, qty), cycle |-> cyc, age |-> age,
        cost_today |-> cost]

_build_component_state(components) ==
    [j \in DOMAIN components |-> BuildOne(components[j])]

---------------------------------------------------------------------------
(* _simulate: one year *)

RECURSIVE Pow(_, _)
Pow(b, e) == IF e = 0 THEN 1 ELSE b * Pow(b, e - 1)

\* infl = (1.0 + inflation_rate) ** i, as a fraction
InflFactor(rate, i) == <<Pow(rate[2] + rate[1], i), Pow(rate[2], i)>>

\* (the cost of today charged in every year)
InflatedCostToday(c, infl) == MMul(c.cost_today, c.qty)

\* c["qty"] * c["cost_today"] * infl
InflatedCost(c, infl) == MScale(MMul(c.cost_today, c.qty), infl[1], infl[2])

\* (the balance taken after the year's replacements have reset the ages)
FFBTermAfterReplacement(c, infl) ==
    LET a == IF c.age >= c.cycle THEN 0 ELSE Max(0, c.age)
    IN MScale(MScale(MMul(c.cost_today, c.qty), infl[1], infl[2]), a, c.cycle)

\* (qty * cost_today * infl) * pct, with pct = max(0.0, min(1.0, age / cycle))
FFBTerm(c, infl) ==
    LET a == Max(0, Min(c.cycle, c.age))
    IN MScale(InflatedCost(c, infl), a, c.cycle)

RECURSIVE FFBSum(_, _, _)
FFBSum(s, infl, k) ==
    IF k = 0 THEN MZero ELSE MAdd(FFBSum(s, infl, k - 1), FFBTerm(s[k], infl))

\* (a replacement one year late)
DueAfter(c) == c.age > c.cycle

Due(c) == c.age >= c.cycle

RECURSIVE ExpenseSum(_, _, _)
ExpenseSum(s, infl, k) ==
    IF k = 0 THEN MZero
    ELSE MAdd(ExpenseSum(s, infl, k - 1),
              IF Due(s[k]) THEN InflatedCost(s[k], infl) ELSE MZero)

\* (no reset)
ReplaceSkipped(c) == c

\* reset after replacement
Replace(c) == IF Due(c) THEN [c EXCEPT !.age = 0] ELSE c

\* (a component replaced this year keeps age 0 into the next year)
AdvanceUnlessReplaced(c) == IF c.age = 0 THEN c ELSE [c EXCEPT !.age = @ + 1]

\* advance component ages to next year
Advance(c) == [c EXCEPT !.age = @ + 1]

\* (interest paid on twice the balance)
InterestDoubled(start_bal, rate) == MScale(MMul(start_bal, 2), rate[1], rate[2])

\* interest = start_bal * float(interest_rate)
Interest(start_bal, rate) == MScale(start_bal, rate[1], rate[2])

\* (the interest left out of the balance)
EndBalanceNoInterest(start_bal, contrib, interest, expenses) ==
    MSub(MAdd(start_bal, contrib), expenses)

\* (the contribution taken out of the balance instead of paid in)
EndBalanceContribSubtracted(start_bal, contrib, interest, expenses) ==
    MSub(MAdd(MSub(start_bal, contrib), interest), expenses)

EndBalance(start_bal, contrib, interest, expenses) ==
    MSub(MAdd(MAdd(start_bal, contrib), interest), expenses)

\* (the full-funding constraint left out)
PassesMinBalanceOnly(end_bal, min_balance, ffb) == ~MLess(end_bal, min_balance)

\* (the minimum balance left out)
PassesFullFundingOnly(end_bal, min_balance, ffb) == ~MLess(end_bal, ffb)

\* the constraints; 1e-9 is below one tick
Passes(end_bal, min_balance, ffb) ==
    IF MLess(end_bal, min_balance) THEN FALSE
    ELSE IF MLess(end_bal, ffb) THEN FALSE
    ELSE TRUE

\* (the ratio not floored at 0)
PctFundedUnfloored(end_bal, ffb) ==
    IF MLess(MZero, ffb) THEN <<end_bal, ffb>> ELSE <<MZero, M(1)>>

\* pct_funded: the ratio end_bal / ffb as an exact fraction of amounts
PctFunded(end_bal, ffb) ==
    IF MLess(MZero, ffb) /\ MLess(MZero, end_bal) THEN <<end_bal, ffb>>
    ELSE <<MZero, M(1)>>

\* one iteration of the loop over the years; s is the loop's state
SimYear(a, s) ==
    LET i == s.i
        year == a.start_year + i
        infl == InflFactor(a.inflation_rate, i)
        ffb == FFBSum(s.st, infl, Len(s.st))
        start_bal == s.bal
        interest == Interest(start_bal, a.interest_rate)
        expenses == ExpenseSum(s.st, infl, Len(s.st))
        st1 == [j \in DOMAIN s.st |-> Replace(s.st[j])]
        contrib == a.annual_contribution
        end_bal == EndBalance(start_bal, contrib, interest, expenses)
        pass == Passes(end_bal, a.min_balance, ffb)
        row == [year |-> year,
                starting_balance |-> start_bal,
                recommended_contribution |-> a.annual_contribution,
                contributions |-> contrib,
                expenses |-> expenses,
                interest_earned |-> interest,
                ending_balance |-> end_bal,
                fully_funded_balance |-> ffb,
                percent_funded |-> PctFunded(end_bal, ffb)]
    IN [i |-> i + 1,
        bal |-> end_bal,
        st |-> [j \in DOMAIN st1 |-> Advance(st1[j])],
        rows |-> Append(s.rows, row),
        returned |-> ~pass]

\* (no return at the first failing year)
SimRunningToTheEnd(a, s) == s.i < a.horizon_years

\* the loop goes on until the range is exhausted or a year has returned False
SimRunning(a, s) == ~s.returned /\ s.i < a.horizon_years

RECURSIVE SimLoop(_, _)
SimLoop(a, s) == IF SimRunning(a, s) THEN SimLoop(a, SimYear(a, s)) ELSE s

\* (the loop started from an empty fund)
SimStartEmptyFund(a, s0) ==
    [i |-> 0, bal |-> MZero, st |-> s0, rows |-> <<>>, returned |-> FALSE]

SimStart(a, s0) ==
    [i |-> 0, bal |-> a.starting_balance, st |-> s0, rows |-> <<>>,
     returned |-> FALSE]

\* (the component state of the previous call used again)
FreshStateReused(components, prev) ==
    IF Len(prev) = Len(components) THEN prev ELSE _build_component_state(components)

\* (the ages the previous call left behind carried into the new state)
FreshStateAgesKept(components, prev) ==
    LET built == _build_component_state(components)
    IN [j \in DOMAIN built |->
            IF j \in DOMAIN prev THEN [built[j] EXCEPT !.age = prev[j].age]
            ELSE built[j]]

\* st = _build_component_state(components): a fresh state for every call;
\* prev is what the previous call left behind
FreshState(components, prev) == _build_component_state(components)

\* _simulate(...) -> (ok, rows); st is the local component state at return
_simulate(a, prev) ==
    LET s == SimLoop(a, SimStart(a, FreshState(a.components, prev)))
    IN [ok |-> ~s.returned, rows |-> s.rows, st |-> s.st]

\* the keyword arguments the solver passes to _simulate
SimArgs(args, c) ==
    [start_year |-> args.start_year,
     horizon_years |-> args.horizon_years,
     inflation_rate |-> args.inflation_rate,
     interest_rate |-> args.interest_rate,
     starting_balance |-> args.starting_balance,
     annual_contribution |-> c,
     components |-> args.components,
     min_balance |-> args.min_balance]

---------------------------------------------------------------------------
(* recommend_levelized_full_funding_contribution *)

\* base_total = sum(float(cost) * int(quantity or 1) for c in components)
RECURSIVE BaseTotal(_, _)
BaseTotal(components, k) ==
    IF k = 0 THEN MZero
    ELSE MAdd(BaseTotal(components, k - 1),
              MMul(CostOf(components[k]), QuantityOf(components[k])))

\* (the floor applied after the doubling)
InitialHiFlooredLast(components) ==
    MMax(Dollars(MinHiDollars), MMul(BaseTotal(components, Len(components)), 2))

\* hi = max(5000.0, base_total); hi *= 2.0
InitialHi(components) ==
    MMul(MMax(Dollars(MinHiDollars), BaseTotal(components, Len(components))), 2)

\* The largest ceiling whose 50th halving, hi / 2^50, is within the comparison
\* tolerance of 1e-9: 2^50 * 1e-9 = 1125899.9..., in ticks, cut to the upper limb.
ToleranceReach == <<(((2^30) \div 10000) * TicksPerCent) \div 1000, 0>>

\* mid = (lo + hi) / 2.0.  Halving is exact in binary floating point; on the
\* tick grid an odd sum is cut towards lo.  Once lo and hi are one tick apart
\* the program goes on halving below the grid, its mid closing in on hi: it
\* comes within the tolerance of hi, and is judged as hi is, when hi is at most
\* ToleranceReach, and stays further away, below every amount of the grid
\* above lo, when hi is larger.
Mid(l, h) ==
    IF MAdd(l, M(1)) = h /\ MLeq(h, ToleranceReach) THEN h
    ELSE MDivFloor(MAdd(l, h), 2)

\* (a passing trial that leaves the upper bound where it was)
BisectHiKept(pass, mid, h) == h

\* the bracket after a bisection trial at mid
BisectHi(pass, mid, h) == IF pass THEN mid ELSE h
\* (a failed trial that leaves the lower bound where it was)
BisectLoKept(pass, mid, l) == l
BisectLo(pass, mid, l) == IF pass THEN l ELSE mid

\* round(best, 2)
RoundCents(x) == MMul(MDivRound(x, TicksPerCent), TicksPerCent)

\* (the rows left as the trial wrote them)
OverwriteRecommendedSkipped(rs, b) == rs

\* for r in best_rows: r["recommended_contribution"] = best
OverwriteRecommended(rs, b) ==
    [k \in DOMAIN rs |-> [rs[k] EXCEPT !.recommended_contribution = b]]

Trial(phase, c, r) == [phase |-> phase, c |-> c, ok |-> r.ok]

\* no _simulate call is being stepped
NoSim == SimStart([starting_balance |-> MZero], <<>>)

\* the application has handled no request: no study, nothing logged
NoRequests ==
    /\ studies = <<>>
    /\ log = [handler |-> "", user |-> "", changed |-> FALSE, runs |-> 0, run |-> <<>>]

\* the local variables before anything is assigned
Locals ==
    /\ lo = MZero /\ hi = MZero /\ n = 0
    /\ ok = TRUE /\ rows = <<>>
    /\ best = MZero /\ best_rows = <<>>
    /\ trials = <<>>
    /\ annual_contribution = MZero
    /\ sim = NoSim

\* lines 144-151
Begin ==
    /\ pc = "start"
    /\ lo' = MZero
    /\ hi' = InitialHi(inp.components)
    /\ n' = 0
    /\ pc' = "expand"
    /\ UNCHANGED <<studies, log, inp, ok, rows, st, best, best_rows, annual_contribution, sim, trials, calls, returned>>

\* lines 154-167: one pass of the expansion loop
ExpandStep ==
    /\ pc = "expand"
    /\ n < ExpandAttempts
    /\ LET r == _simulate(SimArgs(inp, hi), st)
       IN /\ ok' = r.ok
          /\ rows' = r.rows
          /\ st' = r.st
          /\ trials' = Append(trials, Trial("expand", hi, r))
          /\ IF r.ok
             THEN /\ hi' = hi
                  /\ n' = n
                  /\ pc' = "expanded"
             ELSE /\ hi' = MMul(hi, 2)
                  /\ n' = n + 1
                  /\ pc' = IF n + 1 = ExpandAttempts THEN "expanded" ELSE "expand"
    /\ UNCHANGED <<studies, log, inp, lo, best, best_rows, annual_contribution, sim, calls, returned>>

\* lines 170-171
StartBisect ==
    /\ pc = "expanded"
    /\ best' = hi
    /\ best_rows' = <<>>
    /\ n' = 0
    /\ pc' = "bisect"
    /\ UNCHANGED <<studies, log, inp, lo, hi, ok, rows, st, annual_contribution, sim, trials, calls, returned>>

\* (the bisection left at the first passing trial)
BisectStepUntilPass ==
    /\ pc = "bisect"
    /\ n < BisectSteps
    /\ LET mid == Mid(lo, hi)
           r == _simulate(SimArgs(inp, mid), st)
       IN /\ ok' = r.ok
          /\ rows' = r.rows
          /\ st' = r.st
          /\ trials' = Append(trials, Trial("bisect", mid, r))
          /\ best' = IF r.ok THEN mid ELSE best
          /\ best_rows' = IF r.ok THEN r.rows ELSE best_rows
          /\ hi' = BisectHi(r.ok, mid, hi)
          /\ lo' = BisectLo(r.ok, mid, lo)
          /\ pc' = IF r.ok \/ n + 1 = BisectSteps THEN "round" ELSE "bisect"
    /\ n' = n + 1
    /\ UNCHANGED <<studies, log, inp, annual_contribution, sim, calls, returned>>

\* lines 173-190: one pass of the bisection loop
BisectStep ==
    /\ pc = "bisect"
    /\ n < BisectSteps
    /\ LET mid == Mid(lo, hi)
           r == _simulate(SimArgs(inp, mid), st)
       IN /\ ok' = r.ok
          /\ rows' = r.rows
          /\ st' = r.st
          /\ trials' = Append(trials, Trial("bisect", mid, r))
          /\ best' = IF r.ok THEN mid ELSE best
          /\ best_rows' = IF r.ok THEN r.rows ELSE best_rows
          /\ hi' = BisectHi(r.ok, mid, hi)
          /\ lo' = BisectLo(r.ok, mid, lo)
    /\ n' = n + 1
    /\ pc' = IF n + 1 = BisectSteps THEN "round" ELSE "bisect"
    /\ UNCHANGED <<studies, log, inp, annual_contribution, sim, calls, returned>>

\* lines 192-200.  best_rows and rows are the same list when the last trial
\* passed, so the overwrite shows through rows as well.
Finish ==
    /\ pc = "round"
    /\ LET b == RoundCents(best)
           rs == OverwriteRecommended(best_rows, b)
       IN /\ best' = b
          /\ best_rows' = rs
          /\ rows' = IF rows = best_rows THEN rs ELSE rows
          /\ returned' = Append(returned, [args |-> inp, contribution |-> b, rows |-> rs])
    /\ pc' = "done"
    /\ UNCHANGED <<studies, log, inp, lo, hi, n, ok, st, annual_contribution, sim, trials, calls>>

Solve == Begin \/ ExpandStep \/ StartBisect \/ BisectStep \/ Finish

---------------------------------------------------------------------------
(* The solver as its caller sees it: one call, from arguments to result *)

\* lines 154-167: for _ in range(20), hi doubled until a trial passes
RECURSIVE Expand(_, _, _)
Expand(args, h, k) ==
    IF k = ExpandAttempts THEN h
    ELSE IF _simulate(SimArgs(args, h), <<>>).ok THEN h
    ELSE CHOOSE x \in {Expand(args, h2, k + 1) : h2 \in {MMul(h, 2)}} : TRUE

\* lines 174-190: one pass of the bisection loop; b holds lo, hi, best and
\* best_rows
BisectPass(args, b) ==
    CHOOSE x \in
        {[lo |-> BisectLo(r.ok, mid, b.lo),
          hi |-> BisectHi(r.ok, mid, b.hi),
          best |-> IF r.ok THEN mid ELSE b.best,
          best_rows |-> IF r.ok THEN r.rows ELSE b.best_rows] :
            mid \in {Mid(b.lo, b.hi)},
            r \in {_simulate(SimArgs(args, Mid(b.lo, b.hi)), <<>>)}} : TRUE

\* lines 173-190: the loop variables after k passes of the loop from b.  The
\* passes are taken in two runs, the second starting from the value the first
\* has left.
RECURSIVE Bisect(_, _, _)
Bisect(args, b, k) ==
    IF k = 0 THEN b
    ELSE IF k = 1 THEN BisectPass(args, b)
    ELSE CHOOSE x \in {Bisect(args, b2, k - (k \div 2)) :
                          b2 \in {Bisect(args, b, k \div 2)}} : TRUE

\* recommend_levelized_full_funding_contribution(...) -> (best, best_rows)
recommend_levelized_full_funding_contribution(args) ==
    LET h == Expand(args, InitialHi(args.components), 0)
        b == Bisect(args, [lo |-> MZero, hi |-> h, best |-> h, best_rows |-> <<>>],
                    BisectSteps)
        c == RoundCents(b.best)
    IN [contribution |-> c, rows |-> OverwriteRecommended(b.best_rows, c)]

---------------------------------------------------------------------------
(* Inputs *)

Comp(q, ul, rl, cy, cost) ==
    [name |-> "component", quantity |-> q, useful_life_years |-> ul,
     remaining_life_years |-> rl, cycle_years |-> cy,
     current_replacement_cost |-> cost]

Args(h, infl, int, sb, mb, comps) ==
    [start_year |-> 2025, horizon_years |-> h, inflation_rate |-> infl,
     interest_rate |-> int, starting_balance |-> sb, components |-> comps,
     min_balance |-> mb]

Rate0 == <<0, 1>>
InterestRates == {<<-3, 1>>, <<-1, 2>>, Rate0, <<1, 2>>}
InflationRates == {Rate0, <<1, 2>>}
StartBalances == {Dollars(-100), MZero, Dollars(100)}
MinBalances == {MZero, Dollars(100)}

\* every combination of assumptions with no component or one component
AssumptionInputs ==
    {Args(h, infl, int, sb, mb, comps) :
        h \in 1..MaxHorizon, infl \in InflationRates, int \in InterestRates,
        sb \in StartBalances, mb \in MinBalances,
        comps \in {<<>>, <<Comp(<<1>>, 2, 1, <<2>>, 10000)>>}}

\* every small component, under plain assumptions
SmallComponents ==
    {Comp(<<q>>, ul, rl, <<>>, 10000) :
        q \in 1..2, ul \in 1..MaxCycle, rl \in 0..(MaxCycle + 1)}
    \cup {Comp(<<1>>, 10, rl, <<cy>>, 10000) :
        cy \in 1..MaxCycle, rl \in 0..(MaxCycle + 1)}

ComponentLists ==
    {<<c>> : c \in SmallComponents}
    \cup {<<Comp(<<1>>, 2, 0, <<>>, 10000), Comp(<<2>>, 3, rl, <<>>, 5000)>> :
            rl \in 0..MaxCycle}

ComponentInputs ==
    {Args(h, Rate0, Rate0, MZero, MZero, comps) :
        h \in {1, MaxHorizon, 2 * MaxCycle + 1}, comps \in ComponentLists}

\* the scenarios the specification names
ScenarioDeposit ==
    Args(10, Rate0, Rate0, MZero, MZero, <<Comp(<<1>>, 10, 5, <<10>>, 10000000)>>)
ScenarioCycle ==
    Args(11, Rate0, Rate0, MZero, MZero, <<Comp(<<1>>, 5, 0, <<5>>, 1000000)>>)

ScenarioLarge ==
    Args(2, Rate0, Rate0, MZero, MZero, <<Comp(<<1>>, 10, 0, <<>>, 200000000)>>)

\* the first upper bound falls short of what the negative balance needs
ScenarioShortfall ==
    Args(2, Rate0, Rate0, Dollars(-100), MZero, <<Comp(<<1>>, 10, 0, <<>>, 200000000)>>)

\* costs around the floor of the ceiling, the quantity unset, 0, negative or
\* larger than 1
CeilingInputs ==
    {Args(2, Rate0, Rate0, MZero, MZero, <<Comp(q, 2, 1, <<>>, cost)>>) :
        q \in {<<>>, <<0>>, <<-2>>, <<3>>}, cost \in {300000, 600000}}

\* horizons below 1: range(horizon_years) is empty
HorizonInputs ==
    {Args(h, Rate0, Rate0, sb, MZero, comps) :
        h \in {-1, 0}, sb \in {Dollars(-100), MZero},
        comps \in {<<>>, <<Comp(<<1>>, 2, 1, <<2>>, 10000)>>}}

Inputs ==
    AssumptionInputs \cup ComponentInputs \cup HorizonInputs \cup CeilingInputs
    \cup {ScenarioDeposit, ScenarioCycle, ScenarioLarge, ScenarioShortfall}

---------------------------------------------------------------------------
(* One solver call on any input *)

Init ==
    /\ inp \in Inputs
    /\ pc = "start"
    /\ Locals
    /\ st = <<>>
    /\ calls = 1
    /\ returned = <<>>
    /\ NoRequests

Next == Solve

Spec == Init /\ [][Next]_vars

\* The call is sequential code: a step that can be taken is taken.  This is
\* weak fairness of Next, WF_vars(Next), written out; a step of Next can be
\* taken at every position of the function but the last (pc = "done").
SpecFair == Init /\ [][Next]_vars /\ ([]<>(pc = "done") \/ []<><<Next>>_vars)

---------------------------------------------------------------------------
(* _simulate called directly and stepped year by year *)

Probes == {MZero, Dollars(50), Dollars(150), Dollars(10000)}

\* one component of every cycle and remaining life, the cycle given, unset,
\* 0 or negative, and a pair of components, over more than two cycles
AgeInputs ==
    {Args(2 * MaxCycle + 1, infl, Rate0, MZero, MZero, <<Comp(<<1>>, MaxCycle, rl, cy, 10000)>>) :
        infl \in InflationRates,
        rl \in (-1)..(MaxCycle + 1),
        cy \in {<<>>} \cup {<<c>> : c \in (-1)..MaxCycle}}
    \cup {Args(2 * MaxCycle + 1, Rate0, Rate0, MZero, MZero,
               <<Comp(<<1>>, 2, 0, <<>>, 10000), Comp(<<2>>, 3, rl, <<>>, 5000)>>) :
            rl \in 0..MaxCycle}

SimInputs == AssumptionInputs \cup AgeInputs

\* the call: lines 56-59
SimCall ==
    /\ pc = "sim_idle"
    /\ Len(trials) < MaxProbes
    /\ \E c \in Probes :
        /\ annual_contribution' = c
        /\ sim' = SimStart(SimArgs(inp, c), FreshState(inp.components, st))
    /\ pc' = "sim_loop"
    /\ UNCHANGED <<studies, log, inp, lo, hi, n, ok, rows, st, best, best_rows, trials, calls, returned>>

\* one pass of the loop: lines 61-122
SimStep ==
    /\ pc = "sim_loop"
    /\ SimRunning(SimArgs(inp, annual_contribution), sim)
    /\ sim' = SimYear(SimArgs(inp, annual_contribution), sim)
    /\ UNCHANGED <<studies, log, inp, pc, lo, hi, n, ok, rows, st, best, best_rows,
                   annual_contribution, trials, calls, returned>>

\* return False, rows (line 122) or return True, rows (line 124)
SimReturn ==
    /\ pc = "sim_loop"
    /\ ~SimRunning(SimArgs(inp, annual_contribution), sim)
    /\ ok' = ~sim.returned
    /\ rows' = sim.rows
    /\ st' = sim.st
    /\ trials' = Append(trials, Trial("probe", annual_contribution, [ok |-> ~sim.returned]))
    /\ pc' = "sim_idle"
    /\ UNCHANGED <<studies, log, inp, lo, hi, n, best, best_rows, annual_contribution, sim, calls, returned>>

InitSim ==
    /\ inp \in SimInputs
    /\ pc = "sim_idle"
    /\ Locals
    /\ st = <<>>
    /\ calls = 0
    /\ returned = <<>>
    /\ NoRequests

NextSim == SimCall \/ SimStep \/ SimReturn

SpecSim == InitSim /\ [][NextSim]_vars

---------------------------------------------------------------------------
(* Several solver calls, one after the other *)

CallInputs ==
    {Args(MaxHorizon, Rate0, Rate0, MZero, MZero, comps) :
        comps \in {<<>>,
                   <<Comp(<<1>>, 3, 2, <<3>>, 10000)>>,
                   <<Comp(<<1>>, 2, 0, <<>>, 10000), Comp(<<2>>, 3, 1, <<>>, 5000)>>}}
    \cup {Args(2, <<1, 2>>, <<1, 2>>, Dollars(100), MZero,
               <<Comp(<<1>>, 2, 1, <<2>>, 10000)>>)}

\* the next call: the locals are new, the caller's data is what it was
CallAgain ==
    /\ pc = "done"
    /\ calls < MaxCalls
    /\ inp' \in CallInputs
    /\ pc' = "start"
    /\ lo' = MZero /\ hi' = MZero /\ n' = 0
    /\ ok' = TRUE /\ rows' = <<>>
    /\ best' = MZero /\ best_rows' = <<>>
    /\ trials' = <<>>
    /\ annual_contribution' = MZero
    /\ sim' = NoSim
    /\ calls' = calls + 1
    /\ UNCHANGED <<studies, log, st, returned>>

InitCalls ==
    /\ inp \in CallInputs
    /\ pc = "start"
    /\ Locals
    /\ st = <<>>
    /\ calls = 1
    /\ returned = <<>>
    /\ NoRequests

NextCalls == Solve \/ CallAgain

SpecCalls == InitCalls /\ [][NextCalls]_vars

---------------------------------------------------------------------------
(* _build_component_state applied to one component of any shape *)

BuildInputs ==
    {Args(1, Rate0, Rate0, MZero, MZero, <<Comp(q, ul, rl, cy, 10000)>>) :
        q \in {<<>>, <<-1>>, <<0>>, <<1>>, <<2>>},
        ul \in (-1)..MaxCycle,
        rl \in (-1)..(MaxCycle + 1),
        cy \in {<<>>} \cup {<<c>> : c \in (-1)..MaxCycle}}

\* st = _build_component_state(components)
BuildState ==
    /\ pc = "build"
    /\ st' = _build_component_state(inp.components)
    /\ pc' = "built"
    /\ UNCHANGED <<studies, log, inp, lo, hi, n, ok, rows, best, best_rows,
                   annual_contribution, sim, trials, calls, returned>>

InitBuild ==
    /\ inp \in BuildInputs
    /\ pc = "build"
    /\ Locals
    /\ st = <<>>
    /\ calls = 0
    /\ returned = <<>>
    /\ NoRequests

NextBuild == BuildState

SpecBuild == InitBuild /\ [][NextBuild]_vars

---------------------------------------------------------------------------
(* The study workflow of the web application (src/app.py): one row of the   *)
(* reserve_study table followed from its creation, with the components,     *)
(* photos and yearly results that hang on it.  funding_method and           *)
(* contribution_mode are stored beside the other assumptions and enter no   *)
(* computation; they are left out.                                          *)

\* the admin, the user who owns the property, and another user
Users == {"admin", "owner", "visitor"}

is_admin(u) == u = "admin"

\* study.property.user_id == u.id
OwnsProperty(u) == u = "owner"

\* _require_property_access / _require_study_access let the request through
HasAccess(u) == is_admin(u) \/ OwnsProperty(u)

\* (a lock that is never on)
NeverLocked(u, study) == FALSE

_study_locked_for_user(u, study) ==
    IF is_admin(u) THEN FALSE
    ELSE IF study.workflow_status # "" /\ study.workflow_status # "draft" THEN TRUE
    ELSE study.paid_status = "paid"

\* a submitted component row: the cycle is a blank field, <<>>, or a number
FormRow(nm, q, ul, rl, cy, cost) ==
    [name |-> nm, quantity |-> q, useful_life_years |-> ul,
     remaining_life_years |-> rl, cycle_years |-> cy,
     current_replacement_cost |-> cost]

Form(h, int, sb, rs) ==
    [start_year |-> 2025, horizon_years |-> h, inflation_rate |-> Rate0,
     interest_rate |-> int, starting_balance |-> sb, min_balance |-> MZero,
     rows |-> rs]

\* the forms submitted: a plain one, one whose fields need clamping, one whose
\* cost is large, and one with no named component
Forms ==
    {Form(2, Rate0, MZero, <<FormRow("roof", 1, 2, 1, <<>>, 10000)>>),
     Form(3, <<1, 2>>, Dollars(100), <<FormRow("paving", 0, 3, -1, <<0>>, 20000)>>),
     Form(2, Rate0, MZero, <<FormRow("tower", 1, 10, 0, <<>>, 200000000)>>),
     Form(2, Rate0, MZero, <<FormRow("", 1, 2, 1, <<>>, 10000)>>)}

\* one entry of payload / incoming: the row as it is stored
IncomingRow(r) ==
    LET ul == r.useful_life_years
        cyc == IF r.cycle_years = <<>> THEN ul ELSE r.cycle_years[1]
    IN [name |-> r.name,
        quantity |-> <<Max(1, r.quantity)>>,
        useful_life_years |-> Max(1, ul),
        remaining_life_years |-> Max(0, r.remaining_life_years),
        cycle_years |-> <<Max(1, cyc)>>,
        current_replacement_cost |-> Max(0, r.current_replacement_cost)]

\* the rows with a name, normalized; the others are skipped
RECURSIVE Incoming(_)
Incoming(rs) ==
    IF rs = <<>> THEN <<>>
    ELSE IF Head(rs).name = "" THEN Incoming(Tail(rs))
    ELSE <<IncomingRow(Head(rs))>> \o Incoming(Tail(rs))

\* ReserveStudy(...) as create_study builds it, with its components
NewStudy(tier, f, photos) ==
    [tier |-> tier, workflow_status |-> "draft", paid_status |-> "draft",
     start_year |-> f.start_year, horizon_years |-> f.horizon_years,
     inflation_rate |-> f.inflation_rate, interest_rate |-> f.interest_rate,
     starting_balance |-> f.starting_balance, min_balance |-> f.min_balance,
     components |-> Incoming(f.rows), photos |-> photos,
     results |-> <<>>, recommended_annual_contribution |-> <<>>]

\* the premium shell: no component, pending the admin's build
ShellStudy ==
    [tier |-> "premium", workflow_status |-> "paid_pending_admin_build",
     paid_status |-> "paid",
     start_year |-> 2025, horizon_years |-> 30,
     inflation_rate |-> <<3, 100>>, interest_rate |-> <<1, 100>>,
     starting_balance |-> MZero, min_balance |-> MZero,
     components |-> <<>>, photos |-> 0,
     results |-> <<>>, recommended_annual_contribution |-> <<>>]

\* the component dict checkout hands to the solver
SolverComponent(c) ==
    [name |-> c.name, quantity |-> c.quantity,
     useful_life_years |-> c.useful_life_years,
     remaining_life_years |-> c.remaining_life_years,
     cycle_years |-> <<OrElse(c.cycle_years, c.useful_life_years)>>,
     current_replacement_cost |-> c.current_replacement_cost]

\* the keyword arguments of checkout's solver call
SolverArgs(study) ==
    [start_year |-> study.start_year, horizon_years |-> study.horizon_years,
     inflation_rate |-> study.inflation_rate, interest_rate |-> study.interest_rate,
     starting_balance |-> study.starting_balance,
     components |-> [j \in DOMAIN study.components |->
                        SolverComponent(study.components[j])],
     min_balance |-> study.min_balance]

\* the solver calls a checkout can make, and what each returns
SolverCalls == {SolverArgs(NewStudy("essentials", f, 0)) : f \in Forms}
Recommended ==
    [a \in SolverCalls |-> recommend_levelized_full_funding_contribution(a)]

\* ReserveYearResult(**kwargs): the columns stored of a returned row
StoredRow(row) ==
    [year |-> row.year,
     starting_balance |-> row.starting_balance,
     contributions |-> row.contributions,
     expenses |-> row.expenses,
     interest_earned |-> row.interest_earned,
     ending_balance |-> row.ending_balance,
     fully_funded_balance |-> row.fully_funded_balance,
     percent_funded |-> row.percent_funded]

\* (the new rows added to the rows already stored)
ResultsAppended(old, yearly) == old \o [k \in DOMAIN yearly |-> StoredRow(yearly[k])]

\* the study's rows deleted, then one row added per returned row
ResultsReplaced(old, yearly) == [k \in DOMAIN yearly |-> StoredRow(yearly[k])]

\* the request noted; changed tells whether it committed anything
Logged(h, u, changed) == [log EXCEPT !.handler = h, !.user = u, !.changed = changed]

\* the request ends with nothing committed: an abort, a redirect or an error
Refused(h, u) ==
    /\ studies' = studies
    /\ log' = Logged(h, u, FALSE)

\* (every paid study final, whatever its tier)
PaidFinalWhateverTier(tier) == "paid_final"

\* the workflow status checkout gives a study of the tier
PaidWorkflowStatus(tier) ==
    IF tier = "essentials" THEN "paid_final" ELSE "paid_awaiting_review"

Solver == <<inp, pc, lo, hi, n, ok, rows, st, best, best_rows,
            annual_contribution, sim, trials, calls, returned>>

create_study(u) ==
    /\ studies = <<>>
    /\ \E tier \in {"essentials", "plus", "premium"}, f \in Forms, photos \in 0..MaxPhotos :
        IF ~HasAccess(u) \/ tier \notin {"essentials", "plus"} \/ Incoming(f.rows) = <<>>
        THEN Refused("create_study", u)
        ELSE /\ studies' = <<NewStudy(tier, f, photos)>>
             /\ log' = Logged("create_study", u, TRUE)
    /\ UNCHANGED Solver

admin_create_shell_study(u) ==
    /\ studies = <<>>
    /\ \E tier \in {"plus", "premium"} :
        IF ~is_admin(u) \/ tier # "premium"
        THEN Refused("admin_create_shell_study", u)
        ELSE /\ studies' = <<ShellStudy>>
             /\ log' = Logged("admin_create_shell_study", u, TRUE)
    /\ UNCHANGED Solver

\* the premium request belongs to the owner; paid tells whether it was paid
premium_schedule_post(u) ==
    /\ studies = <<>>
    /\ \E paid \in BOOLEAN :
        IF ~HasAccess(u) \/ ~paid
        THEN Refused("premium_schedule_post", u)
        ELSE /\ studies' = <<ShellStudy>>
             /\ log' = Logged("premium_schedule_post", u, TRUE)
    /\ UNCHANGED Solver

\* a kept component keeps its photos; a new one gets the photos uploaded for
\* its row before the save
update_study(u) ==
    /\ studies # <<>>
    /\ LET study == studies[1]
       IN \E f \in Forms, photos \in 0..MaxPhotos :
            IF ~HasAccess(u) \/ _study_locked_for_user(u, study) \/ Incoming(f.rows) = <<>>
            THEN Refused("update_study", u)
            ELSE /\ studies' =
                        <<[study EXCEPT
                            !.start_year = f.start_year,
                            !.horizon_years = f.horizon_years,
                            !.inflation_rate = f.inflation_rate,
                            !.interest_rate = f.interest_rate,
                            !.starting_balance = f.starting_balance,
                            !.min_balance = f.min_balance,
                            !.components = Incoming(f.rows),
                            !.photos = photos]>>
                 /\ log' = Logged("update_study", u, TRUE)
    /\ UNCHANGED Solver

upload_component_photo(u) ==
    /\ studies # <<>>
    /\ LET study == studies[1]
       IN IF \/ study.components = <<>>
             \/ ~HasAccess(u)
             \/ _study_locked_for_user(u, study)
             \/ study.photos >= MaxPhotos
          THEN Refused("upload_component_photo", u)
          ELSE /\ studies' = <<[study EXCEPT !.photos = @ + 1]>>
               /\ log' = Logged("upload_component_photo", u, TRUE)
    /\ UNCHANGED Solver

delete_component_photo(u) ==
    /\ studies # <<>>
    /\ LET study == studies[1]
       IN IF study.photos = 0 \/ ~HasAccess(u) \/ _study_locked_for_user(u, study)
          THEN Refused("delete_component_photo", u)
          ELSE /\ studies' = <<[study EXCEPT !.photos = @ - 1]>>
               /\ log' = Logged("delete_component_photo", u, TRUE)
    /\ UNCHANGED Solver

checkout_simulate_success(u) ==
    /\ studies # <<>>
    /\ LET study == studies[1]
           tier == study.tier
       IN IF \/ ~HasAccess(u)
             \/ _study_locked_for_user(u, study)
             \/ tier \notin {"essentials", "plus"}
          THEN Refused("checkout_simulate_success", u)
          ELSE LET components == SolverArgs(study).components
                   r == Recommended[SolverArgs(study)]
                   solved == components # <<>>
               IN /\ studies' =
                        <<[study EXCEPT
                            !.results = IF solved THEN ResultsReplaced(@, r.rows) ELSE @,
                            !.recommended_annual_contribution =
                                IF solved THEN <<r.contribution>> ELSE @,
                            !.paid_status = "paid",
                            !.workflow_status = PaidWorkflowStatus(tier)]>>
                  /\ log' = [handler |-> "checkout_simulate_success", user |-> u,
                             changed |-> TRUE,
                             runs |-> Min(log.runs + 1, MaxRuns),
                             run |-> IF solved THEN <<r>> ELSE <<>>]
    /\ UNCHANGED Solver

admin_approve(u) ==
    /\ studies # <<>>
    /\ LET study == studies[1]
       IN IF ~is_admin(u)
          THEN Refused("admin_approve", u)
          ELSE /\ studies' = <<[study EXCEPT !.workflow_status = "approved_final",
                                             !.paid_status = "paid"]>>
               /\ log' = Logged("admin_approve", u, TRUE)
    /\ UNCHANGED Solver

InitApp ==
    /\ inp = Args(0, Rate0, Rate0, MZero, MZero, <<>>)
    /\ pc = "app"
    /\ Locals
    /\ st = <<>>
    /\ calls = 0
    /\ returned = <<>>
    /\ NoRequests

NextApp ==
    \E u \in Users :
        \/ create_study(u)
        \/ admin_create_shell_study(u)
        \/ premium_schedule_post(u)
        \/ update_study(u)
        \/ upload_component_photo(u)
        \/ delete_component_photo(u)
        \/ checkout_simulate_success(u)
        \/ admin_approve(u)

SpecApp == InitApp /\ [][NextApp]_vars

---------------------------------------------------------------------------
(* Properties *)

Done == pc = "done"

\* what a fresh _simulate call says of contribution c under the call's inputs
Feasible(c) == _simulate(SimArgs(inp, c), <<>>).ok

ExpansionTrials == {k \in DOMAIN trials : trials[k].phase = "expand"}
BisectTrials == {k \in DOMAIN trials : trials[k].phase = "bisect"}
ExpansionPassed == \E k \in ExpansionTrials : trials[k].ok
BisectPassed == \E k \in BisectTrials : trials[k].ok

NonNegativeInterest == inp.interest_rate[1] >= 0

\* C1: with a non-empty component list, horizon_years >= 1 and a passing
\* contribution found during bracket expansion, the returned (cent-rounded)
\* contribution is feasible: _simulate at exactly that value returns true.
C1_ReturnedContributionFeasible ==
    (Done /\ inp.components # <<>> /\ inp.horizon_years >= 1 /\ ExpansionPassed)
        => Feasible(best)

\* contributions of at least one cent less than b, none negative
OneCentLess(b) ==
    {c \in {MSub(b, Cents(1)), MSub(b, Cents(2)), MSub(b, Dollars(1)),
            MDivFloor(b, 2), MZero} :
        MLeq(MZero, c) /\ MLeq(c, MSub(b, Cents(1)))}

\* C2: with interest_rate >= 0 and a passing upper bound found by bracket
\* expansion, the returned contribution is minimal to the cent: it is not
\* negative, and no non-negative contribution at least one cent smaller passes.
C2_MinimalToTheCent ==
    (Done /\ NonNegativeInterest /\ ExpansionPassed)
        => /\ MLeq(MZero, best)
           /\ \A c \in OneCentLess(best) : ~Feasible(c)

C2_Witness ==
    /\ Done /\ NonNegativeInterest /\ ExpansionPassed
    /\ inp.components # <<>>
    /\ BisectPassed
    /\ MLess(Dollars(1), best)

\* the verdicts of the calls made so far never turn from pass to fail as the
\* contribution grows
Monotone ==
    \A j, k \in DOMAIN trials :
        (MLess(trials[j].c, trials[k].c) /\ trials[j].ok) => trials[k].ok

\* C3 as claimed: for fixed components and assumptions (horizon_years >= 1,
\* min_balance >= 0, any starting balance, any interest rate), if a < b and
\* _simulate passes at a, it passes at b.
C3_MonotoneAnyInterest == Monotone

\* C3: the same for interest_rate >= 0.
C3_MonotoneNonNegativeInterest == NonNegativeInterest => Monotone

C3_Witness ==
    /\ NonNegativeInterest
    /\ inp.components # <<>>
    /\ \E j, k \in DOMAIN trials :
        /\ MLess(trials[j].c, trials[k].c) /\ trials[j].ok /\ trials[k].ok
        /\ ~Feasible(MDivFloor(trials[j].c, 2))

\* C4: two solver calls with identical assumptions and components, with any
\* other calls in between, return the same contribution and the same rows.
C4_Deterministic ==
    \A j, k \in DOMAIN returned :
        returned[j].args = returned[k].args => returned[j] = returned[k]

C4_Witness ==
    /\ Len(returned) = 3
    /\ returned[1].args = returned[3].args
    /\ returned[2].args # returned[1].args
    /\ returned[1].rows # <<>>
    /\ returned[2].rows # <<>>

\* C5 as claimed: in the scenario (one component, quantity 1, useful life 10,
\* remaining life 5, cycle 10, cost 100000; horizon 10, no inflation, no
\* interest, balances 0) the solver returns 100000/6 = 16666.67.
C5_ScenarioSixDeposits ==
    (Done /\ inp = ScenarioDeposit) => best = Cents(1666667)

\* C5: in that scenario the solver returns 50000.00, the fully funded balance
\* of year 0 (100000 x 5/10), with the ten rows of a passing run.
C5_ScenarioFullyFunded ==
    (Done /\ inp = ScenarioDeposit)
        => /\ best = Dollars(50000)
           /\ Len(best_rows) = inp.horizon_years
           /\ Feasible(best)

C5_Witness ==
    /\ Done /\ inp = ScenarioDeposit
    /\ best_rows # <<>>
    /\ best_rows[1].fully_funded_balance = Dollars(50000)
    /\ best_rows[6].expenses = Dollars(100000)

\* a row meets both constraints
RowPasses(r) ==
    /\ ~MLess(r.ending_balance, inp.min_balance)
    /\ ~MLess(r.ending_balance, r.fully_funded_balance)

AllRowsPass(rs) == \A k \in DOMAIN rs : RowPasses(rs[k])

EmptyCall == inp.components = <<>> /\ inp.horizon_years >= 1 /\ MLeq(MZero, inp.min_balance)

\* C6 as claimed: with an empty component list, for every assumptions with
\* horizon_years >= 1 and min_balance >= 0, the solver returns exactly 0, with
\* rows that are empty or pass every constraint.
C6_EmptyReturnsZero ==
    (Done /\ EmptyCall)
        => best = MZero /\ (best_rows = <<>> \/ AllRowsPass(best_rows))

\* C6: the same when starting_balance >= min_balance and interest_rate >= 0.
C6_EmptyReturnsZeroWhenFunded ==
    (Done /\ EmptyCall /\ MLeq(inp.min_balance, inp.starting_balance)
          /\ NonNegativeInterest)
        => best = MZero /\ (best_rows = <<>> \/ AllRowsPass(best_rows))

C6_Witness ==
    /\ Done /\ EmptyCall
    /\ MLess(MZero, inp.min_balance)
    /\ MLeq(inp.min_balance, inp.starting_balance)
    /\ inp.interest_rate[1] > 0
    /\ best = MZero
    /\ Len(best_rows) = inp.horizon_years

\* the row's ending balance is the sum of the amounts stored in the row
RowBalances(r) ==
    r.ending_balance =
        MSub(MAdd(MAdd(r.starting_balance, r.contributions), r.interest_earned),
             r.expenses)

\* C7: in every row produced by _simulate and in every row returned by the
\* solver, ending_balance = starting_balance + contributions + interest_earned
\* - expenses, exactly, on the values stored in that row.
C7_BalanceRecurrence ==
    /\ \A k \in DOMAIN rows : RowBalances(rows[k])
    /\ \A k \in DOMAIN best_rows : RowBalances(best_rows[k])
    /\ \A j \in DOMAIN returned :
        \A k \in DOMAIN returned[j].rows : RowBalances(returned[j].rows[k])

C7_Witness ==
    /\ Done
    /\ \E k \in DOMAIN best_rows :
        /\ best_rows[k].interest_earned # MZero
        /\ best_rows[k].expenses # MZero
        /\ best_rows[k].contributions # MZero
        /\ best_rows[k].recommended_contribution # best_rows[k].contributions

\* the replacement interval of a component as given
CycleOf(c) == IF c.cycle_years # <<>> THEN c.cycle_years[1] ELSE c.useful_life_years

\* quantity x current_replacement_cost of the first k components whose cycle
\* divides the elapsed-year index i
RECURSIVE CycleCosts(_, _, _)
CycleCosts(components, i, k) ==
    IF k = 0 THEN MZero
    ELSE MAdd(CycleCosts(components, i, k - 1),
              IF i % CycleOf(components[k]) = 0
              THEN MMul(Cents(components[k].current_replacement_cost),
                        components[k].quantity[1])
              ELSE MZero)

\* no inflation, and every component due at the start (remaining life 0)
AllDueAtStart ==
    /\ inp.inflation_rate[1] = 0
    /\ inp.components # <<>>
    /\ \A k \in DOMAIN inp.components :
        /\ inp.components[k].remaining_life_years = 0
        /\ inp.components[k].quantity # <<>> /\ inp.components[k].quantity[1] >= 1
        /\ CycleOf(inp.components[k]) >= 1

\* C8: with zero inflation, a component with remaining_life_years = 0 and
\* cycle C costs exactly quantity x current_replacement_cost in every
\* elapsed-year index that is a multiple of C, and nothing in any other year.
C8_ReplacementCycle ==
    AllDueAtStart
        => \A k \in DOMAIN rows :
              rows[k].expenses = CycleCosts(inp.components, k - 1, Len(inp.components))

C8_Witness ==
    /\ AllDueAtStart
    /\ Len(inp.components) = 1
    /\ ok
    /\ LET c == CycleOf(inp.components[1])
       IN /\ c >= 2
          /\ Len(rows) >= 2 * c + 1
          /\ rows[1].expenses # MZero
          /\ rows[2].expenses = MZero
          /\ rows[c + 1].expenses # MZero
          /\ rows[2 * c + 1].expenses # MZero

\* C9: whenever _simulate returns false, the rows stop at the first violating
\* year: the last row violates a constraint, every earlier row meets both, and
\* there is no row for a later year.
C9_EarlyExit ==
    (trials # <<>> /\ ~ok)
        => /\ rows # <<>>
           /\ Len(rows) <= inp.horizon_years
           /\ ~RowPasses(rows[Len(rows)])
           /\ \A k \in 1..(Len(rows) - 1) : RowPasses(rows[k])

C9_Witness ==
    /\ trials # <<>> /\ ~ok
    /\ Len(rows) >= 2
    /\ Len(rows) < inp.horizon_years

\* the largest upper bound simulated during bracket expansion
LargestHiTried ==
    CHOOSE c \in {trials[k].c : k \in ExpansionTrials} :
        \A k \in ExpansionTrials : MLeq(trials[k].c, c)

\* C10: when all 20 bracket-expansion simulations fail and no bisection
\* candidate passes, the solver returns the largest upper bound that was
\* simulated during bracket expansion.
C10_ReturnsLargestTried ==
    (Done /\ Cardinality(ExpansionTrials) = ExpandAttempts
          /\ ~ExpansionPassed /\ ~BisectPassed)
        => best = LargestHiTried

\* the simulations made so far keep to the budget: at most 20 in bracket
\* expansion, none of them after one that passed, then at most 50 in bisection,
\* each of at most horizon_years rows
SimulationBudget ==
    /\ Cardinality(ExpansionTrials) <= ExpandAttempts
    /\ Cardinality(BisectTrials) <= BisectSteps
    /\ \A j \in ExpansionTrials, k \in BisectTrials : j < k
    /\ \A j, k \in ExpansionTrials : (trials[j].ok /\ j # k) => k < j
    /\ Len(rows) <= Max(0, inp.horizon_years)
    /\ pc = "expand" => n < ExpandAttempts
    /\ pc = "bisect" => n < BisectSteps
    /\ Done => (Cardinality(BisectTrials) = BisectSteps
                /\ Len(trials) <= ExpandAttempts + BisectSteps)

\* C11: the solver eventually returns, after at most 20 bracket-expansion
\* simulations, which stop at the first upper bound that passes, followed by
\* exactly 50 bisection simulations, each of at most horizon_years yearly steps.
C11_Termination == <>Done /\ []SimulationBudget

C11_Witness ==
    /\ Done
    /\ Cardinality(ExpansionTrials) = 2
    /\ ExpansionPassed
    /\ BisectPassed
    /\ Len(best_rows) = inp.horizon_years

\* C12: a call with horizon_years <= 0 never returns a contribution or rows
\* (it ends in an invalid-input error before any simulation).
C12_InvalidHorizonRejected ==
    inp.horizon_years <= 0 => (trials = <<>> /\ returned = <<>>)

\* percent_funded, a fraction of amounts, is not negative
PctNotNegative(r) ==
    /\ MLeq(MZero, r.percent_funded[1])
    /\ MLess(MZero, r.percent_funded[2])

\* percent_funded is exactly 0
PctZero(r) == r.percent_funded[1] = MZero

PctBounded(rs) ==
    \A k \in DOMAIN rs :
        /\ PctNotNegative(rs[k])
        /\ ~MLess(MZero, rs[k].fully_funded_balance) => PctZero(rs[k])

\* C13: in every row produced by _simulate, of a passing or a failing run and
\* whatever the sign of the balance, percent_funded >= 0, and percent_funded
\* is exactly 0 whenever fully_funded_balance is not greater than 0.
C13_PercentFundedBound == PctBounded(sim.rows) /\ PctBounded(rows)

C13_Witness ==
    /\ pc = "sim_idle" /\ ~ok
    /\ \E k \in DOMAIN rows :
        /\ MLess(MZero, rows[k].fully_funded_balance)
        /\ MLess(rows[k].ending_balance, MZero)
        /\ PctZero(rows[k])
    /\ \E k \in DOMAIN rows :
        /\ MLess(MZero, rows[k].ending_balance)
        /\ ~PctZero(rows[k])

\* C14: every returned row's recommended_contribution equals the returned,
\* cent-rounded contribution.
C14_RecommendedIsReturned ==
    /\ \A j \in DOMAIN returned :
        \A k \in DOMAIN returned[j].rows :
            returned[j].rows[k].recommended_contribution = returned[j].contribution
    /\ Done => \A k \in DOMAIN best_rows :
                  best_rows[k].recommended_contribution = best

C14_Witness ==
    /\ Done
    /\ returned # <<>>
    /\ Len(returned[1].rows) >= 2
    /\ \A k \in DOMAIN returned[1].rows :
        returned[1].rows[k].contributions # returned[1].contribution

Clamp(x, low, high) == Max(low, Min(high, x))

\* the normalized state s of component c has the quantity floored at 1, the
\* given cycle, and the age clamp(cycle - max(0, remaining_life_years), 0, cycle)
NormalizedWith(c, s, cycle) ==
    /\ s.qty = (IF c.quantity = <<>> THEN 1 ELSE Max(1, c.quantity[1]))
    /\ s.cycle = cycle
    /\ s.age = Clamp(cycle - Max(0, c.remaining_life_years), 0, cycle)

Built == pc = "built" /\ Len(st) = Len(inp.components)

\* C15 as claimed: qty = max(1, quantity); cycle = max(1, cycle_years)
\* whenever cycle_years is supplied, 0 and negative values included, and
\* max(1, useful_life_years) only when it is unset; age = clamp(cycle -
\* max(0, remaining_life_years), 0, cycle).
C15_CycleFlooredWheneverSupplied ==
    Built => \A j \in DOMAIN st :
        LET c == inp.components[j]
        IN NormalizedWith(c, st[j],
               IF c.cycle_years # <<>> THEN Max(1, c.cycle_years[1])
               ELSE Max(1, c.useful_life_years))

\* C15: the same with cycle = max(1, cycle_years) when cycle_years is
\* supplied and not 0, and cycle = max(1, useful_life_years) when cycle_years
\* is unset or 0.
C15_CycleDefaultsWhenUnsetOrZero ==
    Built => \A j \in DOMAIN st :
        LET c == inp.components[j]
        IN NormalizedWith(c, st[j],
               IF c.cycle_years # <<>> /\ c.cycle_years[1] # 0
               THEN Max(1, c.cycle_years[1])
               ELSE Max(1, c.useful_life_years))

C15_Witness ==
    /\ Built
    /\ inp.components[1].cycle_years = <<0>>
    /\ inp.components[1].useful_life_years = MaxCycle
    /\ inp.components[1].remaining_life_years = 1
    /\ inp.components[1].quantity = <<-1>>
    /\ st[1].cycle = MaxCycle /\ st[1].age = MaxCycle - 1 /\ st[1].qty = 1

\* 0 <= age <= cycle for every component of the state s
AgeInvariant(s) == \A j \in DOMAIN s : 0 <= s[j].age /\ s[j].age <= s[j].cycle

\* the inflated cost of the first k components of s whose age is their cycle,
\* in elapsed-year index i
RECURSIVE DueCosts(_, _, _)
DueCosts(s, i, k) ==
    IF k = 0 THEN MZero
    ELSE MAdd(DueCosts(s, i, k - 1),
              IF s[k].age = s[k].cycle
              THEN InflatedCost(s[k], InflFactor(inp.inflation_rate, i))
              ELSE MZero)

\* a year of the loop replaces the components whose age is their cycle at the
\* start of the year: they are the year's expenses and start the next year
\* at age 1, the others are one year older
ReplacedWhenDue ==
    (pc = "sim_loop" /\ sim'.i = sim.i + 1)
        => /\ sim'.rows[Len(sim'.rows)].expenses = DueCosts(sim.st, sim.i, Len(sim.st))
           /\ \A j \in DOMAIN sim.st :
                sim'.st[j].age = IF sim.st[j].age = sim.st[j].cycle THEN 1
                                 ELSE sim.st[j].age + 1

\* C16: in every state of a simulation (right after normalization, at the
\* start of every year and after every end-of-year advance, the last one
\* included) every component has 0 <= age <= cycle, and a component whose age
\* equals its cycle at the start of a year is replaced in that year.
C16_AgeInvariant ==
    [](AgeInvariant(sim.st) /\ AgeInvariant(st)) /\ [][ReplacedWhenDue]_vars

C16_Witness ==
    /\ pc = "sim_idle" /\ ok
    /\ Len(st) = 1
    /\ inp.components[1].remaining_life_years > st[1].cycle
    /\ st[1].cycle = MaxCycle
    /\ st[1].age = 1
    /\ Len(rows) = 2 * MaxCycle + 1
    /\ rows[Len(rows)].expenses # MZero

\* one component, no inflation, a remaining life R >= 0
OneComponent ==
    /\ Len(inp.components) = 1
    /\ inp.inflation_rate[1] = 0
    /\ inp.components[1].remaining_life_years >= 0

\* the first expense of the rows rs is in elapsed-year index r, if they go that far
FirstExpenseAt(rs, r) ==
    \A k \in DOMAIN rs :
        /\ k - 1 < r => rs[k].expenses = MZero
        /\ k - 1 = r => rs[k].expenses # MZero

\* C17 as claimed: a component with remaining_life_years = R >= 0, R larger
\* than the cycle included, has its first replacement expense in elapsed-year
\* index R and in no earlier year.
C17_FirstReplacementAtRemainingLife ==
    OneComponent => FirstExpenseAt(sim.rows, inp.components[1].remaining_life_years)

\* the effective cycle of the one component
CycleNormalized == _build_component_state(inp.components)[1].cycle

\* C17: a component with remaining_life_years = R >= 0 has its first
\* replacement expense in elapsed-year index min(R, cycle): in index R when R
\* is at most the effective cycle, in index cycle when R is larger.
C17_FirstReplacementAtMinOfLifeAndCycle ==
    OneComponent
        => FirstExpenseAt(sim.rows, Min(inp.components[1].remaining_life_years,
                                        CycleNormalized))

C17_Witness ==
    /\ OneComponent
    /\ pc = "sim_loop"
    /\ inp.components[1].remaining_life_years = 2
    /\ CycleNormalized = MaxCycle
    /\ Len(sim.rows) = 2 * MaxCycle + 1
    /\ sim.rows[3].expenses # MZero

\* the last _simulate call of the solver returned what a first call on the
\* same contribution returns
LastTrialAsIfFirst ==
    (pc \in {"expand", "expanded", "bisect", "round"} /\ trials # <<>>)
        => LET fresh == _simulate(SimArgs(inp, trials[Len(trials)].c), <<>>)
           IN ok = fresh.ok /\ rows = fresh.rows

\* two trials of the same contribution have the same verdict
SameVerdictForSameContribution ==
    \A j, k \in DOMAIN trials : trials[j].c = trials[k].c => trials[j].ok = trials[k].ok

\* C18: within one solver call the verdict and rows of _simulate for a
\* contribution do not depend on the simulations that ran before it (the
\* ages one trial changes are not seen by another), and the caller's
\* component list is unchanged when the solver returns.
C18_FreshStatePerTrial ==
    /\ [](LastTrialAsIfFirst /\ SameVerdictForSameContribution)
    /\ [][inp' = inp]_vars

C18_Witness ==
    /\ pc = "bisect"
    /\ Len(trials) >= 3
    /\ ok /\ ~trials[Len(trials) - 1].ok
    /\ st # <<>>
    /\ st # _build_component_state(inp.components)
    /\ Len(rows) = inp.horizon_years
    /\ \E k \in DOMAIN rows : rows[k].expenses # MZero

\* a direct _simulate call has returned
SimReturned == pc = "sim_idle" /\ trials # <<>>

\* C19: _simulate returns true exactly when in every one of the
\* horizon_years years ending_balance >= min_balance and ending_balance >=
\* fully_funded_balance; when it returns true it returns exactly horizon_years
\* rows, all produced with the same fixed contribution.
C19_PassVerdict ==
    SimReturned
        => /\ ok <=> (Len(rows) = inp.horizon_years /\ AllRowsPass(rows))
           /\ ok => \A k \in DOMAIN rows :
                        /\ rows[k].contributions = annual_contribution
                        /\ rows[k].recommended_contribution = annual_contribution
                        /\ rows[k].year = inp.start_year + k - 1

C19_Witness ==
    /\ SimReturned
    /\ ok /\ ~trials[1].ok
    /\ Len(rows) = MaxHorizon
    /\ inp.components # <<>>
    /\ MLess(MZero, inp.min_balance)
    /\ MLess(inp.starting_balance, MZero)

\* the age of a component at the start of elapsed-year index i, from its age
\* at the start and its cycle: it grows to the cycle, then runs 1..cycle
AgeAtYear(age0, cycle, i) ==
    IF age0 + i <= cycle THEN age0 + i
    ELSE ((age0 + i - cycle - 1) % cycle) + 1

\* sum over the first k components of qty x cost_today x (1 + inflation)^i
\* x clamp(age / cycle, 0, 1), the age being that at the start of year i
RECURSIVE ExpectedFFB(_, _, _)
ExpectedFFB(s0, i, k) ==
    IF k = 0 THEN MZero
    ELSE LET c == s0[k]
             age == Clamp(AgeAtYear(c.age, c.cycle, i), 0, c.cycle)
             grown == MScale(MMul(c.cost_today, c.qty),
                             Pow(inp.inflation_rate[2] + inp.inflation_rate[1], i),
                             Pow(inp.inflation_rate[2], i))
         IN MAdd(ExpectedFFB(s0, i, k - 1), MScale(grown, age, c.cycle))

FFBOfRows(rs) ==
    LET s0 == _build_component_state(inp.components)
    IN \A k \in DOMAIN rs :
          rs[k].fully_funded_balance = ExpectedFFB(s0, k - 1, Len(s0))

\* C20: in the row of elapsed-year index i, fully_funded_balance is the sum
\* over the components of qty x cost_today x (1 + inflation_rate)^i x
\* clamp(age / cycle, 0, 1), with the age as at the start of that year, before
\* the year's replacements reset it: a component replaced in the year counts
\* with its full inflated cost.
C20_FullyFundedBalance == FFBOfRows(sim.rows) /\ FFBOfRows(rows)

C20_Witness ==
    /\ pc = "sim_loop"
    /\ Len(inp.components) = 1
    /\ inp.inflation_rate[1] # 0
    /\ Len(sim.rows) >= 3
    /\ sim.rows[3].expenses # MZero
    /\ sim.rows[3].fully_funded_balance = sim.rows[3].expenses
    /\ MLess(sim.rows[2].fully_funded_balance, sim.rows[3].fully_funded_balance)
    /\ MLess(MZero, sim.rows[2].fully_funded_balance)

\* the interest of every row is its starting balance times the rate, whatever
\* the year's contribution, and the balance a year ends with, contribution
\* included, is the one the next year starts with and earns on
InterestOnStartingBalance(rs) ==
    \A k \in DOMAIN rs :
        /\ rs[k].interest_earned =
               MScale(rs[k].starting_balance, inp.interest_rate[1], inp.interest_rate[2])
        /\ k > 1 => rs[k].starting_balance = rs[k - 1].ending_balance
        /\ k = 1 => rs[k].interest_earned =
               MScale(inp.starting_balance, inp.interest_rate[1], inp.interest_rate[2])

\* C21: in each row interest_earned equals starting_balance x interest_rate;
\* the contribution of a year earns no interest in that year, and earns from
\* the following year on through the next row's starting_balance.
C21_InterestBasis == InterestOnStartingBalance(sim.rows) /\ InterestOnStartingBalance(rows)

C21_Witness ==
    /\ pc = "sim_loop"
    /\ Len(sim.rows) >= 2
    /\ inp.starting_balance = MZero
    /\ MLess(MZero, annual_contribution)
    /\ sim.rows[1].interest_earned = MZero
    /\ sim.rows[2].interest_earned # MZero
    /\ sim.rows[2].starting_balance = annual_contribution

\* the inflated cost of the first k components of the normalized state s0 that
\* are due in elapsed-year index i: those whose age has reached the cycle
RECURSIVE ExpectedExpenses(_, _, _)
ExpectedExpenses(s0, i, k) ==
    IF k = 0 THEN MZero
    ELSE LET c == s0[k]
             grown == MScale(MMul(c.cost_today, c.qty),
                             Pow(inp.inflation_rate[2] + inp.inflation_rate[1], i),
                             Pow(inp.inflation_rate[2], i))
         IN MAdd(ExpectedExpenses(s0, i, k - 1),
                 IF AgeAtYear(c.age, c.cycle, i) >= c.cycle THEN grown ELSE MZero)

ExpensesOfRows(rs) ==
    LET s0 == _build_component_state(inp.components)
    IN \A k \in DOMAIN rs : rs[k].expenses = ExpectedExpenses(s0, k - 1, Len(s0))

\* the ages with which the next year starts: 1 for a component charged in the
\* year before (reset to 0, then one year older)
AgesOfState(s, i) ==
    LET s0 == _build_component_state(inp.components)
    IN \A j \in DOMAIN s : s[j].age = AgeAtYear(s0[j].age, s0[j].cycle, i)

\* C22: in the row of elapsed-year index i, expenses is the sum, over exactly
\* the components whose age has reached their cycle at the start of the year,
\* of qty x cost_today x (1 + inflation_rate)^i; the others contribute
\* nothing, and each component charged has its age reset in that year.
C22_InflatedExpenses ==
    /\ ExpensesOfRows(sim.rows) /\ ExpensesOfRows(rows)
    /\ pc = "sim_loop" => AgesOfState(sim.st, sim.i)

C22_Witness ==
    /\ pc = "sim_loop"
    /\ inp.inflation_rate[1] # 0
    /\ Len(sim.rows) >= 3
    /\ sim.rows[1].expenses = MZero
    /\ sim.rows[2].expenses # MZero
    /\ MLess(Cents(10000), sim.rows[2].expenses)
    /\ sim.st # <<>>
    /\ \E j \in DOMAIN sim.st : sim.st[j].age = 1 /\ sim.st[j].cycle > 1

\* C25: in every row sequence of _simulate, row k (from 0) has year =
\* start_year + k, row 0 starts with the input starting_balance and every
\* later row starts with the previous row's ending_balance.
RowsInSequence(rs) ==
    \A k \in DOMAIN rs :
        /\ rs[k].year = inp.start_year + (k - 1)
        /\ rs[k].starting_balance =
               IF k = 1 THEN inp.starting_balance ELSE rs[k - 1].ending_balance

C25_RowSequencing == RowsInSequence(sim.rows) /\ RowsInSequence(rows)

C25_Witness ==
    /\ pc = "sim_idle" /\ trials # <<>>
    /\ Len(rows) = MaxHorizon
    /\ inp.starting_balance # MZero
    /\ \A k \in DOMAIN rows : rows[k].ending_balance # rows[k].starting_balance

\* the sum over the first k components of quantity x current_replacement_cost,
\* the quantity as int(quantity or 1) reads it: 1 when unset or 0
RECURSIVE CostSum(_, _)
CostSum(components, k) ==
    IF k = 0 THEN MZero
    ELSE LET c == components[k]
             q == IF c.quantity = <<>> \/ c.quantity[1] = 0 THEN 1 ELSE c.quantity[1]
         IN MAdd(CostSum(components, k - 1), MMul(Cents(c.current_replacement_cost), q))

FirstTrialMade == trials # <<>> /\ pc \in {"expand", "expanded"}

\* C23 as claimed: the first upper bound simulated is twice the sum of
\* quantity x current_replacement_cost floored at 5000, max(5000, 2 x sum),
\* and the lower bound starts at 0.
C23_CeilingFlooredAfterDoubling ==
    FirstTrialMade
        => /\ trials[1].c = MMax(Dollars(5000),
                                 MMul(CostSum(inp.components, Len(inp.components)), 2))
           /\ lo = MZero

\* C23: the first upper bound simulated is twice the larger of 5000 and the
\* sum, 2 x max(5000, sum), so never below 10000; the lower bound starts at 0.
C23_CeilingFlooredBeforeDoubling ==
    FirstTrialMade
        => /\ trials[1].c = MMul(MMax(Dollars(5000),
                                      CostSum(inp.components, Len(inp.components))), 2)
           /\ lo = MZero

C23_Witness ==
    /\ FirstTrialMade
    /\ inp \in CeilingInputs
    /\ inp.components[1].quantity = <<3>>
    /\ inp.components[1].current_replacement_cost = 300000
    /\ trials[1].c = Dollars(18000)
    /\ hi = Dollars(18000)

\* C24: for a non-empty component list and horizon_years >= 1, when some
\* simulated contribution passes, in bracket expansion or bisection, the solver
\* returns exactly horizon_years rows, the rows of a simulation that passed;
\* never a feasible contribution with an empty row list.
C24_ReturnedRowsOfPassingRun ==
    (Done /\ inp.components # <<>> /\ inp.horizon_years >= 1
          /\ (ExpansionPassed \/ BisectPassed))
        => /\ Len(best_rows) = inp.horizon_years
           /\ AllRowsPass(best_rows)

\* the solver taken as one call returns what the solver stepped through returns
SolverAsOneCall ==
    Done => recommend_levelized_full_funding_contribution(inp)
                = [contribution |-> best, rows |-> best_rows]

CheckoutCommitted == log.handler = "checkout_simulate_success" /\ log.changed

\* C26: after checkout_simulate_success commits for a study with at least one
\* component, the stored yearly results of the study are exactly the rows that
\* run's solver call returned, one stored row per returned row and none left
\* from an earlier run, and recommended_annual_contribution is the contribution
\* that run returned; after any number of repeated runs.
C26_ResultsReplacedWholesale ==
    (studies # <<>> /\ CheckoutCommitted /\ studies[1].components # <<>>)
        => LET study == studies[1]
               r == Recommended[SolverArgs(study)]
           IN /\ log.run = <<r>>
              /\ Len(study.results) = Len(r.rows)
              /\ \A k \in DOMAIN r.rows : study.results[k] = StoredRow(r.rows[k])
              /\ study.recommended_annual_contribution = <<r.contribution>>

C26_Witness ==
    /\ studies # <<>>
    /\ CheckoutCommitted
    /\ log.runs >= 2
    /\ Len(studies[1].results) = 3
    /\ studies[1].recommended_annual_contribution # <<>>

\* the lock as a user meets it: the workflow status is not draft, or the
\* legacy paid status is paid
Locked(study) == study.workflow_status # "draft" \/ study.paid_status = "paid"

LockedHandlers ==
    {"update_study", "checkout_simulate_success",
     "upload_component_photo", "delete_component_photo"}

\* C27: once a study is locked, no request of a user who is not an admin to
\* update_study, checkout_simulate_success, upload_component_photo or
\* delete_component_photo changes the study: its assumptions, components,
\* photos, stored results, paid_status and workflow_status stay as they are.
C27_LockedStudyUnchanged ==
    [][(/\ studies # <<>>
        /\ Locked(studies[1])
        /\ ~is_admin(log'.user)
        /\ log'.handler \in LockedHandlers)
            => studies' = studies]_vars

C27_Witness ==
    /\ studies # <<>>
    /\ Locked(studies[1])
    /\ studies[1].photos > 0
    /\ log.handler = "delete_component_photo"
    /\ log.user = "owner"
    /\ ~log.changed

\* C28 as claimed: workflow_status becomes approved_final only through
\* admin_approve performed by an admin, and only for a plus or premium study
\* that is in paid_awaiting_review or paid_pending_admin_build; a draft study
\* or an essentials study never reaches approved_final.
C28_ApprovalPrecondition ==
    [][(/\ studies # <<>>
        /\ studies[1].workflow_status # "approved_final"
        /\ studies'[1].workflow_status = "approved_final")
            => /\ log'.handler = "admin_approve"
               /\ is_admin(log'.user)
               /\ studies[1].tier \in {"plus", "premium"}
               /\ studies[1].workflow_status
                      \in {"paid_awaiting_review", "paid_pending_admin_build"}]_vars

\* paid_final is held only by essentials studies, paid_awaiting_review only by
\* plus studies
PaidStatusOfTier ==
    studies # <<>>
        => /\ studies[1].workflow_status = "paid_final"
                => studies[1].tier = "essentials"
           /\ studies[1].workflow_status = "paid_awaiting_review"
                => studies[1].tier = "plus"

\* a checkout that commits on a draft study marks it paid and moves it to the
\* status of its tier
CheckoutMovesDraft ==
    (/\ studies # <<>>
     /\ studies[1].workflow_status = "draft"
     /\ log'.handler = "checkout_simulate_success"
     /\ log'.changed)
        => /\ studies'[1].paid_status = "paid"
           /\ studies[1].tier \in {"essentials", "plus"}
           /\ studies[1].tier = "essentials"
                => studies'[1].workflow_status = "paid_final"
           /\ studies[1].tier = "plus"
                => studies'[1].workflow_status = "paid_awaiting_review"

\* a checkout request leaves a premium study as it is
CheckoutLeavesPremium ==
    (/\ studies # <<>>
     /\ studies[1].tier = "premium"
     /\ log'.handler = "checkout_simulate_success")
        => studies' = studies

\* C29: a successful checkout_simulate_success on a draft study sets paid_status
\* to paid and moves workflow_status from draft to paid_final when the tier is
\* essentials and to paid_awaiting_review when it is plus; a premium study is
\* never changed by checkout; so in every reachable state paid_final is held
\* only by essentials studies and paid_awaiting_review only by plus studies.
C29_CheckoutTransitionByTier ==
    /\ []PaidStatusOfTier
    /\ [][CheckoutMovesDraft /\ CheckoutLeavesPremium]_vars

C29_Witness ==
    /\ studies # <<>>
    /\ CheckoutCommitted
    /\ log.user = "owner"
    /\ log.runs = 1
    /\ studies[1].tier = "plus"
    /\ studies[1].workflow_status = "paid_awaiting_review"
    /\ studies[1].paid_status = "paid"

====
